---- MODULE Spec2Model ----
(***************************************************************************)
(* A model of adlfs/aio/core.py. AzureBlobFile: the buffered, block-staged *)
(* writer and the range reader, over a blob store that keeps the committed *)
(* block list and the staged, uncommitted blocks of every blob.            *)
(* AzureBlobFileSystem: ls over the store's prefix listings, and walk as   *)
(* the stack of generators that its recursion makes.                       *)
(***************************************************************************)
EXTENDS Integers, Sequences, FiniteSets, TLC

\* ------------------------------------------------------------------ bounds
\* most bytes one handle accepts through write
MaxLoc == 3
\* longest data of one write call
MaxData == 2
\* largest block_size a handle is opened with
MaxBlockSize == 2
\* largest size of an object that is in the store from the start
MaxSize == 2

\* most bytes a handle accepts when two handles run together
PairMaxLoc == 2
\* most bytes a handle accepts when it writes one byte at a time
LongMaxLoc == 11
\* the largest loc a seek reaches, and the largest offset it is given
MaxSeek == 4
\* the largest maxdepth given to walk
MaxDepth == 3
\* the depth of generator nesting at which the interpreter gives up
MaxStack == 8
MaxFindDepth == 1

Handles == {1, 2}
Paths == {<<"c", "/", "a">>, <<"c", "/", "b">>}
WriteModes == {"wb", "ab"}
None == -1

Min(a, b) == IF a < b THEN a ELSE b

\* ------------------------------------------------------ strings (str methods)
\* a string is a sequence of characters
RECURSIVE LStrip(_, _)
LStrip(s, ch) == IF s # <<>> /\ s[1] = ch THEN LStrip(Tail(s), ch) ELSE s
RECURSIVE RStrip(_, _)
RStrip(s, ch) ==
  IF s # <<>> /\ s[Len(s)] = ch THEN RStrip(SubSeq(s, 1, Len(s) - 1), ch) ELSE s
Contains(s, ch) == \E i \in 1..Len(s) : s[i] = ch
CountOf(s, ch) == Cardinality({i \in 1..Len(s) : s[i] = ch})
StartsWith(s, p) == Len(p) <= Len(s) /\ SubSeq(s, 1, Len(p)) = p
\* the index of the first (last) ch of s, which holds one
First(s, ch) == CHOOSE i \in 1..Len(s) : s[i] = ch /\ \A j \in 1..(i - 1) : s[j] # ch
Last(s, ch) == CHOOSE i \in 1..Len(s) : s[i] = ch /\ \A j \in (i + 1)..Len(s) : s[j] # ch
\* s.split(ch, 1): one or two parts
Split1(s, ch) ==
  IF Contains(s, ch)
  THEN <<SubSeq(s, 1, First(s, ch) - 1), SubSeq(s, First(s, ch) + 1, Len(s))>>
  ELSE <<s>>
\* s.rsplit(ch, 1): one or two parts
RSplit1(s, ch) ==
  IF Contains(s, ch)
  THEN <<SubSeq(s, 1, Last(s, ch) - 1), SubSeq(s, Last(s, ch) + 1, Len(s))>>
  ELSE <<s>>
\* the order of characters ("/" sorts before the letters) and of strings
Alphabet == <<"/", ":", "a", "b", "c", "q", "x", "y">>
Ord(ch) == CHOOSE i \in 1..Len(Alphabet) : Alphabet[i] = ch
RECURSIVE StrLess(_, _)
StrLess(s, t) ==
  IF t = <<>> THEN FALSE
  ELSE IF s = <<>> THEN TRUE
  ELSE IF s[1] # t[1] THEN Ord(s[1]) < Ord(t[1])
  ELSE StrLess(Tail(s), Tail(t))
\* s.split(ch, n): at most n splits
RECURSIVE SplitN(_, _, _)
SplitN(s, ch, n) ==
  IF n > 0 /\ Contains(s, ch)
  THEN <<SubSeq(s, 1, First(s, ch) - 1)>> \o SplitN(SubSeq(s, First(s, ch) + 1, Len(s)), ch, n - 1)
  ELSE <<s>>
\* ch.join(parts)
RECURSIVE Join(_, _)
Join(parts, ch) ==
  IF parts = <<>> THEN <<>>
  ELSE IF Len(parts) = 1 THEN parts[1]
  ELSE parts[1] \o <<ch>> \o Join(Tail(parts), ch)
\* sorted(S) for a set of strings
RECURSIVE Sorted(_)
Sorted(S) ==
  IF S = {} THEN <<>>
  ELSE LET m == CHOOSE x \in S : \A y \in S \ {x} : StrLess(x, y)
       IN <<m>> \o Sorted(S \ {m})

\* fsspec's AbstractFileSystem._parent as close() calls it on the handle's path
Parent(path) ==
  LET p == LStrip(RStrip(path, "/"), "/")
  IN IF Contains(p, "/") THEN RSplit1(p, "/")[1] ELSE <<>>

\* ------------------------------------------------------------- block ids
\* str(n) in decimal, as a sequence of digits
RECURSIVE DecStr(_)
DecStr(n) == IF n < 10 THEN <<n>> ELSE DecStr(n \div 10) \o <<n % 10>>

\* the format spec 07d: zero-padded on the left to at least 7 digits
RECURSIVE ZeroPad7(_)
ZeroPad7(s) == IF Len(s) < 7 THEN ZeroPad7(<<0>> \o s) ELSE s

\* _upload_chunk: block_id = len(self._block_list); block_id = f"{block_id:07d}"
BlockIdOff(block_list) == ZeroPad7(DecStr(Len(block_list) + 1))
BlockId(block_list) == ZeroPad7(DecStr(Len(block_list)))

\* ------------------------------------------------------------------ state
VARIABLES
  file,         \* [Handles -> the fields of an AzureBlobFile]
  call,         \* [Handles -> the call running on the handle and where it is suspended]
  blobs,        \* store: [Paths -> the committed blob: exists, blocks (id, data)]
  uncommitted,  \* store: [Paths -> staged blocks, a function block id -> data]
  loopClosed,   \* fs.loop has been closed
  hist,         \* [Handles -> what the handle has asked of the store, in order]
  store,        \* the containers and blobs that listings are made of
  walk,         \* the walk generator: its frames and what it has yielded
  fscall,       \* the last call on the filesystem: its arguments and its outcome
  dlfile        \* an AzureDatalakeFile: mode, loc, size and its last seek

filevars == <<file, call, blobs, uncommitted, loopClosed, hist>>
fsvars == <<store, walk, fscall>>
dlvars == <<dlfile>>
vars == <<file, call, blobs, uncommitted, loopClosed, hist, store, walk, fscall, dlfile>>

\* the i-th byte written through handle h (handle 0: in the store from the start);
\* the code never looks at byte values, so a byte carries its origin
Byte(h, i) == 100 * h + i
Data(h, from, n) == [i \in 1..n |-> Byte(h, from + i)]

NoFile ==
  [state |-> "none", mode |-> "rb", path |-> <<>>, blocksize |-> 0,
   size |-> None, cache |-> FALSE,
   buffer |-> <<>>, loc |-> 0, offset |-> None, forced |-> FALSE,
   closed |-> FALSE, has_block_list |-> FALSE, block_list |-> <<>>]

NoCall == [op |-> "none", pc |-> "idle", force |-> FALSE, res |-> "none",
           out |-> <<>>, args |-> <<>>, entry |-> [forced |-> FALSE, closed |-> FALSE]]

NoHist == [events |-> <<>>, invalidated |-> <<>>, staged |-> <<>>, commits |-> <<>>,
           written |-> <<>>, nwrites |-> 0, exact |-> TRUE, failed |-> FALSE]

NoBlob == [exists |-> FALSE, by |-> 0, blocks |-> <<>>]
InitialBlob(n) == [exists |-> TRUE, by |-> 0, blocks |-> << [id |-> <<>>, data |-> Data(0, 0, n)] >>]

\* the bytes of a committed blob: its blocks in block-list order
RECURSIVE Content(_)
Content(blocks) ==
  IF blocks = <<>> THEN <<>> ELSE blocks[1].data \o Content(Tail(blocks))

NoStore == [containers |-> {}, blobs |-> {}, cyclic |-> FALSE]
NoDepth == [unset |-> TRUE, n |-> 0]
NoWalk == [status |-> "none", root |-> <<>>, maxdepth |-> NoDepth,
           stack |-> <<>>, out |-> <<>>, listed |-> <<>>]
NoFsCall == [op |-> "none", args |-> <<>>, res |-> "none", val |-> <<>>, before |-> NoStore]
NoSeek == [loc |-> 0, whence |-> 0, res |-> "none", ret |-> 0, before |-> 0]
NoDlFile == [state |-> "none", mode |-> "rb", loc |-> 0, size |-> 0, seek |-> NoSeek]

\* no handle is open; the store holds an object or none at each path
InitFiles ==
  /\ file = [h \in Handles |-> NoFile]
  /\ call = [h \in Handles |-> NoCall]
  /\ uncommitted = [p \in Paths |-> {}]
  /\ loopClosed = FALSE
  /\ hist = [h \in Handles |-> NoHist]
  /\ fscall = NoFsCall

Init ==
  /\ InitFiles
  /\ blobs \in [Paths -> {NoBlob} \cup {InitialBlob(n) : n \in 1..MaxSize}]
  /\ store = NoStore
  /\ walk = NoWalk
  /\ dlfile = NoDlFile

\* ------------------------------------------------------------ the blob store
\* the data a block id of a commit resolves to: the staged block of that id,
\* else the block of that id in the committed blob
HasBlock(p, id) ==
  \/ \E b \in uncommitted[p] : b.id = id
  \/ \E i \in 1..Len(blobs[p].blocks) : blobs[p].blocks[i].id = id
BlockData(p, id) ==
  IF \E b \in uncommitted[p] : b.id = id
  THEN (CHOOSE b \in uncommitted[p] : b.id = id).data
  ELSE blobs[p].blocks[CHOOSE i \in 1..Len(blobs[p].blocks) : blobs[p].blocks[i].id = id].data

\* BlobClient.stage_block: the staged block of this id is replaced
StageBlock(p, id, data) ==
  [uncommitted EXCEPT ![p] = {b \in @ : b.id # id} \cup {[id |-> id, data |-> data]}]

\* BlobClient.commit_block_list: the blob becomes the listed blocks (by: the
\* handle whose commit made the blob, 0 for a blob there from the start)
CommitBlockList(h, p, ids) ==
  [blobs EXCEPT ![p] =
     [exists |-> TRUE, by |-> h,
      blocks |-> [i \in 1..Len(ids) |-> [id |-> ids[i], data |-> BlockData(p, ids[i])]]]]

\* ------------------------------------------------- AzureBlobFile, synchronous parts
\* the outcome of running a method up to its return or its next await: the
\* handle's fields, where it is suspended, what it returned or raised, and the
\* events (invalidate_cache calls, closed = True) it went through
Returns(f, res) == [f |-> f, pc |-> "idle", res |-> res, ev |-> <<>>, inv |-> <<>>]
Awaits(f, pc) == [f |-> f, pc |-> pc, res |-> "pending", ev |-> <<>>, inv |-> <<>>]

\* flush, from its entry to its first await (_initiate_upload's delete_blob or
\* _upload_chunk's stage_block) or its return. A handle in mode rb has no
\* attribute forced: reading it raises AttributeError
FlushEntryInitiating(f, force) ==
  IF f.closed THEN Returns(f, "ValueError")
  ELSE IF force /\ f.mode = "rb" THEN Returns(f, "AttributeError")
  ELSE IF force /\ f.forced THEN Returns(f, "ValueError")
  ELSE LET f1 == IF force THEN [f EXCEPT !.forced = TRUE] ELSE f IN
       IF f1.mode \notin WriteModes THEN Returns(f1, "ok")
       ELSE IF ~force /\ Len(f1.buffer) < f1.blocksize THEN Returns(f1, "ok")
       ELSE Awaits([f1 EXCEPT !.offset = IF @ = None THEN 0 ELSE @,
                              !.has_block_list = TRUE], "delete_blob")
FlushEntryForcedTwice(f, force) ==
  IF f.closed THEN Returns(f, "ValueError")
  ELSE IF force /\ f.mode = "rb" THEN Returns(f, "AttributeError")
  ELSE LET f1 == IF force THEN [f EXCEPT !.forced = TRUE] ELSE f IN
       IF f1.mode \notin WriteModes THEN Returns(f1, "ok")
       ELSE IF ~force /\ Len(f1.buffer) < f1.blocksize THEN Returns(f1, "ok")
       ELSE IF f1.offset = None
            THEN Awaits([f1 EXCEPT !.offset = 0, !.has_block_list = TRUE,
                                   !.block_list = <<>>], "delete_blob")
            ELSE Awaits(f1, "stage_block")
FlushEntry(f, force) ==
  IF f.closed THEN Returns(f, "ValueError")
  ELSE IF force /\ f.mode = "rb" THEN Returns(f, "AttributeError")
  ELSE IF force /\ f.forced THEN Returns(f, "ValueError")
  ELSE LET f1 == IF force THEN [f EXCEPT !.forced = TRUE] ELSE f IN
       IF f1.mode \notin WriteModes THEN Returns(f1, "ok")
       ELSE IF ~force /\ Len(f1.buffer) < f1.blocksize THEN Returns(f1, "ok")
       ELSE IF f1.offset = None
            THEN Awaits([f1 EXCEPT !.offset = 0, !.has_block_list = TRUE,
                                   !.block_list = <<>>], "delete_blob")
            ELSE Awaits(f1, "stage_block")

\* flush, after _upload_chunk has returned
FlushExit(f) == [f EXCEPT !.offset = @ + Len(f.buffer), !.buffer = <<>>]

\* write, from its entry to its return or the first await of the flush it starts
WriteEntryUnflushed(f, data) ==
  IF f.mode \notin WriteModes THEN Returns(f, "ValueError")
  ELSE IF f.closed THEN Returns(f, "ValueError")
  ELSE IF f.forced THEN Returns(f, "ValueError")
  ELSE Returns([f EXCEPT !.buffer = @ \o data, !.loc = @ + Len(data)], "ok")
WriteEntryAfterForce(f, data) ==
  IF f.mode \notin WriteModes THEN Returns(f, "ValueError")
  ELSE IF f.closed THEN Returns(f, "ValueError")
  ELSE LET f1 == [f EXCEPT !.buffer = @ \o data, !.loc = @ + Len(data)] IN
       IF Len(f1.buffer) >= f1.blocksize THEN FlushEntry(f1, FALSE)
       ELSE Returns(f1, "ok")
WriteEntry(f, data) ==
  IF f.mode \notin WriteModes THEN Returns(f, "ValueError")
  ELSE IF f.closed THEN Returns(f, "ValueError")
  ELSE IF f.forced THEN Returns(f, "ValueError")
  ELSE LET f1 == [f EXCEPT !.buffer = @ \o data, !.loc = @ + Len(data)] IN
       IF Len(f1.buffer) >= f1.blocksize THEN FlushEntry(f1, FALSE)
       ELSE Returns(f1, "ok")

\* close, after the forced flush of a write handle: invalidate_cache(path),
\* invalidate_cache(parent), then closed = True
CloseExit(f) ==
  [f |-> [f EXCEPT !.closed = TRUE], pc |-> "idle", res |-> "ok",
   ev |-> <<"invalidate_cache", "invalidate_cache", "closed">>,
   inv |-> <<f.path, Parent(f.path)>>]

\* close, from its entry to its return or the first await of its forced flush
CloseEntryRetrying(f) ==
  IF f.closed THEN Returns(f, "ok")
  ELSE IF f.mode = "rb"
  THEN [Returns([f EXCEPT !.cache = FALSE, !.closed = TRUE], "ok") EXCEPT !.ev = <<"closed">>]
  ELSE FlushEntry([f EXCEPT !.forced = FALSE], TRUE)
CloseEntryAgain(f) ==
  IF f.mode = "rb"
  THEN [Returns([f EXCEPT !.cache = FALSE, !.closed = TRUE], "ok") EXCEPT !.ev = <<"closed">>]
  ELSE IF ~f.forced THEN FlushEntry(f, TRUE)
  ELSE CloseExit(f)
CloseEntry(f) ==
  IF f.closed THEN Returns(f, "ok")
  ELSE IF f.mode = "rb"
  THEN [Returns([f EXCEPT !.cache = FALSE, !.closed = TRUE], "ok") EXCEPT !.ev = <<"closed">>]
  ELSE IF ~f.forced THEN FlushEntry(f, TRUE)
  ELSE CloseExit(f)

\* the handle's call record once an entry or a step has run; entry keeps the
\* handle's flags as the call found them
CallOf(op, force, args, f, r, out) ==
  [op |-> op, pc |-> r.pc, force |-> force, res |-> r.res, out |-> out, args |-> args,
   entry |-> [forced |-> f.forced, closed |-> f.closed]]
Raised(c, res) == [c EXCEPT !.pc = "idle", !.res = res]
Idle(h) == file[h].state = "open" /\ call[h].pc = "idle"

\* ------------------------------------------------------------------ actions
\* AzureBlobFile.__init__ (through AzureBlobFileSystem._open): in mode rb the size
\* comes from fs.info run on fs.loop; otherwise an empty buffer and no offset
Open(h, block_sizes) ==
  /\ file[h].state = "none"
  /\ \E mode \in {"rb", "wb"}, p \in Paths, bs \in block_sizes :
       /\ mode = "rb" => ~loopClosed /\ blobs[p].exists
       /\ file' = [file EXCEPT ![h] =
            [NoFile EXCEPT !.state = "open", !.mode = mode, !.path = p, !.blocksize = bs,
               !.size = IF mode = "rb" THEN Len(Content(blobs[p].blocks)) ELSE None,
               !.cache = (mode = "rb")]]
  /\ UNCHANGED <<call, blobs, uncommitted, loopClosed, hist>>
  /\ UNCHANGED <<fsvars, dlvars>>

\* write(data)
Write(h, lengths, maxloc) ==
  /\ Idle(h)
  /\ \E n \in lengths :
       /\ file[h].loc + n <= maxloc
       /\ LET f == file[h]
              data == Data(h, Len(hist[h].written), n)
              r == WriteEntry(f, data)
          IN /\ file' = [file EXCEPT ![h] = r.f]
             /\ call' = [call EXCEPT ![h] = CallOf("write", FALSE, <<>>, f, r, <<>>)]
             /\ hist' = [hist EXCEPT ![h] =
                  IF r.f.loc # f.loc
                  THEN [@ EXCEPT !.written = @ \o data, !.nwrites = @ + 1,
                                 !.exact = @ /\ (n = f.blocksize)]
                  ELSE @]
  /\ UNCHANGED <<blobs, uncommitted, loopClosed>>
  /\ UNCHANGED <<fsvars, dlvars>>

\* flush(force)
Flush(h) ==
  /\ Idle(h)
  /\ \E force \in BOOLEAN :
       LET r == FlushEntry(file[h], force)
       IN /\ file' = [file EXCEPT ![h] = r.f]
          /\ call' = [call EXCEPT ![h] = CallOf("flush", force, <<>>, file[h], r, <<>>)]
  /\ UNCHANGED <<blobs, uncommitted, loopClosed, hist>>
  /\ UNCHANGED <<fsvars, dlvars>>

\* close()
Close(h) ==
  /\ Idle(h)
  /\ LET r == CloseEntry(file[h])
     IN /\ file' = [file EXCEPT ![h] = r.f]
        /\ call' = [call EXCEPT ![h] =
             CallOf("close", r.pc # "idle", <<>>, file[h], r, <<>>)]
        /\ hist' = [hist EXCEPT ![h].events = @ \o r.ev, ![h].invalidated = @ \o r.inv]
  /\ UNCHANGED <<blobs, uncommitted, loopClosed>>
  /\ UNCHANGED <<fsvars, dlvars>>

\* _initiate_upload resumes from await container_client.delete_blob(self.blob):
\* ResourceNotFoundError is passed over, any other exception becomes RuntimeError
DeleteBlobStep(h, outcomes) ==
  /\ call[h].pc = "delete_blob"
  /\ \E ok \in outcomes :
       IF ok
       THEN /\ blobs' = [blobs EXCEPT ![file[h].path] = NoBlob]
            /\ uncommitted' = IF blobs[file[h].path].exists
                              THEN [uncommitted EXCEPT ![file[h].path] = {}]
                              ELSE uncommitted
            /\ call' = [call EXCEPT ![h].pc = "stage_block"]
            /\ hist' = [hist EXCEPT ![h].events = @ \o <<"delete_blob">>]
       ELSE /\ call' = [call EXCEPT ![h] = Raised(@, "RuntimeError")]
            /\ hist' = [hist EXCEPT ![h].events = @ \o <<"delete_blob">>,
                                    ![h].failed = TRUE]
            /\ UNCHANGED <<blobs, uncommitted>>
  /\ UNCHANGED <<file, loopClosed>>
  /\ UNCHANGED <<fsvars, dlvars>>

\* _upload_chunk resumes from await self.blob_client.stage_block(...); when not
\* final, flush resumes after it and the call returns
StageBlockStep(h, outcomes) ==
  /\ call[h].pc = "stage_block"
  /\ \E ok \in outcomes :
       LET f == file[h]
           block_id == BlockId(f.block_list)
           f1 == [f EXCEPT !.block_list = Append(@, block_id)]
       IN IF ok
          THEN /\ uncommitted' = StageBlock(f.path, block_id, f.buffer)
               /\ file' = [file EXCEPT ![h] = IF call[h].force THEN f1 ELSE FlushExit(f1)]
               /\ call' = [call EXCEPT ![h] =
                    IF call[h].force THEN [@ EXCEPT !.pc = "commit_block_list"]
                    ELSE Raised(@, "ok")]
               /\ hist' = [hist EXCEPT ![h].events = @ \o <<"stage_block">>,
                                       ![h].staged = Append(@, [id |-> block_id, data |-> f.buffer])]
          ELSE /\ call' = [call EXCEPT ![h] = Raised(@, "StoreError")]
               /\ hist' = [hist EXCEPT ![h].failed = TRUE]
               /\ UNCHANGED <<uncommitted, file>>
  /\ UNCHANGED <<blobs, loopClosed>>
  /\ UNCHANGED <<fsvars, dlvars>>

\* _upload_chunk(final=True) resumes from await self.blob_client.commit_block_list(...);
\* flush resumes after it, and close after flush
CommitBlockListStep(h, outcomes) ==
  /\ call[h].pc = "commit_block_list"
  /\ \E ok \in outcomes :
       LET f == file[h]
           known == \A i \in 1..Len(f.block_list) : HasBlock(f.path, f.block_list[i])
           r == IF call[h].op = "close" THEN CloseExit(FlushExit(f))
                ELSE Returns(FlushExit(f), "ok")
       IN IF ok /\ known
          THEN /\ blobs' = CommitBlockList(h, f.path, f.block_list)
               /\ uncommitted' = [uncommitted EXCEPT ![f.path] = {}]
               /\ file' = [file EXCEPT ![h] = r.f]
               /\ call' = [call EXCEPT ![h] = Raised(@, "ok")]
               /\ hist' = [hist EXCEPT
                    ![h].events = @ \o <<"commit_block_list">> \o r.ev,
                    ![h].invalidated = @ \o r.inv,
                    ![h].commits = Append(@, f.block_list)]
          ELSE /\ call' = [call EXCEPT ![h] = Raised(@, "StoreError")]
               /\ hist' = [hist EXCEPT ![h].events = @ \o <<"commit_block_list">>,
                                       ![h].commits = Append(@, f.block_list),
                                       ![h].failed = TRUE]
               /\ UNCHANGED <<blobs, uncommitted, file>>
  /\ UNCHANGED loopClosed
  /\ UNCHANGED <<fsvars, dlvars>>

\* ContainerClient.download_blob(offset, length) then readall(): the bytes of the
\* blob from offset, at most length of them
DownloadBlob(content, offset, length) ==
  SubSeq(content, offset + 1, Min(offset + length, Len(content)))

\* _fetch_range(start, end), run to completion on fs.loop
FetchRange(h, offsets) ==
  /\ Idle(h)
  /\ file[h].mode = "rb"
  /\ \E start \in offsets, end \in offsets, loop \in {"idle", "running"}, ok \in BOOLEAN :
       /\ start <= end
       /\ loop = "running" => ok
       /\ LET content == Content(blobs[file[h].path].blocks)
              res == IF loopClosed \/ loop = "running" THEN "RuntimeError"
                     ELSE IF ~ok \/ ~blobs[file[h].path].exists THEN "StoreError"
                     ELSE "ok"
              out == IF res = "ok" THEN DownloadBlob(content, start, end) ELSE <<>>
          IN call' = [call EXCEPT ![h] =
               CallOf("_fetch_range", FALSE, <<start, end>>, file[h], Returns(file[h], res), out)]
  /\ UNCHANGED <<file, blobs, uncommitted, loopClosed, hist>>
  /\ UNCHANGED <<fsvars, dlvars>>

\* __del__: self.fs.loop.close(), which raises (and __del__ drops the exception)
\* when the loop is running
Del(h) ==
  /\ Idle(h)
  /\ \E running \in BOOLEAN :
       loopClosed' = (loopClosed \/ ~running)
  /\ file' = [file EXCEPT ![h] = [NoFile EXCEPT !.state = "dropped"]]
  /\ call' = [call EXCEPT ![h] = NoCall]
  /\ UNCHANGED <<blobs, uncommitted, hist>>
  /\ UNCHANGED <<fsvars, dlvars>>

\* ------------------------------------------------------------ listings ----
\* The store as listings see it: containers, and in the container "c" a flat
\* set of blobs [name, size]. A store with cyclic = TRUE answers every prefix
\* listing with its top level (external state that names an ancestor).
KeyNames == { <<"a", "/", "x">>, <<"a", "/", "b", "/", "x">>,
              <<"a", "b", "/", "x">>, <<"b", "/", "x">>, <<"a", "/", "x", "y">> }
Container == <<"c">>
Stores ==
  { [containers |-> {Container},
     blobs |-> {[name |-> k, size |-> IF k \in Z THEN 0 ELSE 1] : k \in K},
     cyclic |-> cy] :
    K \in SUBSET KeyNames, Z \in SUBSET {<<"a", "/", "b", "/", "x">>, <<"b", "/", "x">>},
    cy \in BOOLEAN }

\* infer_storage_options: "scheme://host/path" gives host and path, a string
\* without a scheme is all path
SchemeEnd(path) ==
  IF \E i \in 2..(Len(path) - 2) : SubSeq(path, i, i + 2) = <<":", "/", "/">>
  THEN CHOOSE i \in 2..(Len(path) - 2) :
         /\ SubSeq(path, i, i + 2) = <<":", "/", "/">>
         /\ \A j \in 2..(i - 1) : SubSeq(path, j, j + 2) # <<":", "/", "/">>
  ELSE 0
HasScheme(path) ==
  /\ SchemeEnd(path) > 0
  /\ \A j \in 1..(SchemeEnd(path) - 1) : path[j] \notin {"/", ":"}
_strip_protocol(path) ==
  LStrip(IF HasScheme(path) THEN SubSeq(path, SchemeEnd(path) + 3, Len(path)) ELSE path, "/")

\* split_path(path): <<container, key>>
split_path(path) ==
  IF path \in {<<>>, <<"/">>} THEN << <<>>, <<>> >>
  ELSE LET p == LStrip(_strip_protocol(path), "/") IN
       IF ~Contains(p, "/") THEN <<p, <<>> >> ELSE SplitN(p, "/", 1)

\* split_path(path, delimiter): the parts it returns
split_path_delimiter(path, delimiter) ==
  IF path \in {<<>>, <<delimiter>>} THEN << <<>>, <<>> >>
  ELSE LET p == LStrip(_strip_protocol(path), delimiter) IN
       IF ~Contains(p, "/") THEN <<p, <<>> >> ELSE SplitN(p, delimiter, 1)

\* service_client.list_containers()
list_containers(st) ==
  LET names == Sorted(st.containers) IN
  [i \in 1..Len(names) |-> [kind |-> "ContainerProperties", name |-> names[i],
                            container |-> <<>>, size |-> 0]]

\* container_client.walk_blobs(name_starts_with) with the delimiter "/": the
\* blobs directly under the prefix and one BlobPrefix per next-level segment,
\* in name order
ItemName(name, prefix) ==
  LET rest == SubSeq(name, Len(prefix) + 1, Len(name)) IN
  IF Contains(rest, "/") THEN prefix \o SubSeq(rest, 1, First(rest, "/")) ELSE name
walk_blobs(st, container, name_starts_with) ==
  LET prefix == IF st.cyclic THEN <<>> ELSE name_starts_with
      under == {b \in st.blobs : StartsWith(b.name, prefix)}
      names == Sorted({ItemName(b.name, prefix) : b \in under})
      Item(n) == IF \E b \in under : b.name = n
                 THEN [kind |-> "BlobProperties", name |-> n, container |-> container,
                       size |-> (CHOOSE b \in under : b.name = n).size]
                 ELSE [kind |-> "BlobPrefix", name |-> n, container |-> container, size |-> 0]
  IN [i \in 1..Len(names) |-> Item(names[i])]

\* _details(content, return_glob)
_details(content, return_glob) ==
  LET data == IF content.kind # "ContainerProperties"
              THEN LET size == IF content.kind = "BlobProperties" THEN content.size ELSE 0 IN
                   [name |-> content.container \o <<"/">> \o content.name,
                    size |-> size,
                    type |-> IF size = 0 THEN "directory" ELSE "file"]
              ELSE [name |-> content.name \o <<"/">>, size |-> 0, type |-> "directory"]
  IN IF return_glob THEN [data EXCEPT !.name = RStrip(data.name, "/")] ELSE data

FullName(blob) == blob.container \o <<"/">> \o blob.name
LsReturn(val) == [res |-> "ok", val |-> val]
LsSilent(exc) == [res |-> "None", val |-> <<>>]
LsRaise(exc) == [res |-> exc, val |-> <<>>]
\* what a listing of several items returns
LsOf(items, detail, return_glob) ==
  IF return_glob THEN LsReturn([i \in DOMAIN items |-> _details(items[i], TRUE)])
  ELSE IF detail THEN LsReturn([i \in DOMAIN items |-> _details(items[i], FALSE)])
  ELSE LsReturn([i \in DOMAIN items |-> FullName(items[i])])

\* ls(path, detail, return_glob)
ls(st, path0, detail, return_glob) ==
  LET target_path == LStrip(path0, "/")
      container == split_path(path0)[1]
      path == split_path(path0)[2]
  IN
  IF container \in {<<>>, <<".">>, <<"/">>} /\ path \in {<<>>, <<"/">>}
  THEN IF detail
       THEN LsReturn([i \in DOMAIN list_containers(st) |-> _details(list_containers(st)[i], FALSE)])
       ELSE LsReturn([i \in DOMAIN list_containers(st) |-> list_containers(st)[i].name \o <<"/">>])
  ELSE IF container \in {<<>>, <<"/">>} THEN LsRaise("None")
  ELSE IF container \notin st.containers THEN LsRaise("FileNotFoundError")
  ELSE
    LET blobs0 == walk_blobs(st, container, path) IN
    IF Len(blobs0) > 1 THEN LsOf(blobs0, detail, return_glob)
    ELSE IF Len(blobs0) = 1
    THEN IF RStrip(blobs0[1].name, "/") = path /\ blobs0[1].kind # "BlobProperties"
         THEN LsOf(walk_blobs(st, container, blobs0[1].name), detail, return_glob)
         ELSE IF blobs0[1].kind = "BlobPrefix"
         THEN LET page == walk_blobs(st, container, blobs0[1].name)
                  c0 == CountOf(target_path, "/")
                  depth == IF c0 = 0 THEN 2 ELSE c0 + 1
              IN IF page = <<>> THEN LsRaise("None")
                 ELSE IF detail THEN LsReturn(<<_details(page[1], FALSE)>>)
                 ELSE LET dir_parts == SplitN(FullName(page[1]), "/", depth)
                          kept == SubSeq(dir_parts, 1, Min(depth, Len(dir_parts)))
                      IN LsReturn(<<Join(kept, "/") \o <<"/">> >>)
         ELSE LsOf(blobs0, detail, FALSE)
    ELSE IF return_glob \/ path \in {<<>>, <<"/">>} THEN LsReturn(<<>>)
    ELSE LsRaise("FileNotFoundError")

\* ----------------------------------------------------------------- walk ----
\* a dict keeps its keys in insertion order; assigning to a key that is there
\* replaces the value in place
DictSet(d, k, v) ==
  IF \E i \in DOMAIN d : d[i].k = k
  THEN [i \in DOMAIN d |-> IF d[i].k = k THEN [k |-> k, v |-> v] ELSE d[i]]
  ELSE Append(d, [k |-> k, v |-> v])
Keys(d) == [i \in DOMAIN d |-> d[i].k]

\* the loop over the listing: full_dirs, dirs and files
RECURSIVE Classify(_, _, _)
Classify(listing, path, acc) ==
  IF listing = <<>> THEN acc
  ELSE LET info == Head(listing)
           pathname == RStrip(info.name, "/")
           name == RSplit1(pathname, "/")[Len(RSplit1(pathname, "/"))]
       IN Classify(Tail(listing), path,
            IF info.type = "directory" /\ pathname # path
            THEN [acc EXCEPT !.full_dirs = DictSet(@, pathname, info),
                             !.dirs = DictSet(@, name, info)]
            ELSE IF pathname = path
            THEN [acc EXCEPT !.files = DictSet(@, <<>>, info)]
            ELSE [acc EXCEPT !.files = DictSet(@, name, info)])
NoLevel == [full_dirs |-> <<>>, dirs |-> <<>>, files |-> <<>>]

\* maxdepth after "maxdepth -= 1" (an unset maxdepth stays unset)
RemainingUndiminished(maxdepth) == maxdepth
Remaining(maxdepth) ==
  IF maxdepth.unset THEN maxdepth ELSE [maxdepth EXCEPT !.n = @ - 1]
Depth(n) == [unset |-> FALSE, n |-> n]

WalkRoots == { <<>>, <<"c">>, <<"c", "/", "a">>, <<"c", "/", "a", "/", "b">>, <<"q">> }
WalkDepths == {NoDepth} \cup {Depth(n) : n \in 0..MaxDepth}

Frame(path, maxdepth) == [path |-> path, maxdepth |-> maxdepth, pc |-> "ls", full_dirs |-> <<>>]
Top == walk.stack[Len(walk.stack)]
Below == SubSeq(walk.stack, 1, Len(walk.stack) - 1)
\* the generator at the top of the stack is exhausted
Popped(w) ==
  [w EXCEPT !.stack = Below, !.status = IF Below = <<>> THEN "done" ELSE "running"]

\* walk(path, maxdepth) is called and its generator created
WalkCall(roots, depths) ==
  /\ walk.status = "none"
  /\ store # NoStore
  /\ \E root \in roots, maxdepth \in depths :
       walk' = [NoWalk EXCEPT !.status = "running", !.root = root, !.maxdepth = maxdepth,
                              !.stack = <<Frame(root, maxdepth)>>]
  /\ UNCHANGED <<filevars, dlvars, store, fscall>>

\* one generator from its start to its yield, and on from the yield to the
\* depth check
LevelRaising(st, frame) ==
  LET path == _strip_protocol(frame.path)
      r == ls(st, path, TRUE, TRUE)
      listing == IF r.res = "ok" THEN r.val ELSE <<>>
      lv == Classify(listing, path, NoLevel)
      maxdepth == Remaining(frame.maxdepth)
  IN [path |-> path,
      raised |-> IF r.res = "None" THEN "TypeError" ELSE IF r.res # "ok" THEN r.res ELSE "",
      yield |-> [path |-> path, dirs |-> lv.dirs, files |-> lv.files],
      return |-> ~maxdepth.unset /\ maxdepth.n < 1,
      frame |-> [frame EXCEPT !.pc = "loop", !.maxdepth = maxdepth,
                              !.full_dirs = Keys(lv.full_dirs)]]
Level(st, frame) ==
  LET path == _strip_protocol(frame.path)
      r == ls(st, path, TRUE, TRUE)
      listing == IF r.res = "ok" THEN r.val ELSE <<>>
      lv == Classify(listing, path, NoLevel)
      maxdepth == Remaining(frame.maxdepth)
  IN [path |-> path,
      raised |-> IF r.res = "None" THEN "TypeError" ELSE "",
      yield |-> [path |-> path, dirs |-> lv.dirs, files |-> lv.files],
      return |-> ~maxdepth.unset /\ maxdepth.n < 1,
      frame |-> [frame EXCEPT !.pc = "loop", !.maxdepth = maxdepth,
                              !.full_dirs = Keys(lv.full_dirs)]]
\* the levels of every store, for each generator a walk can come to
WalkPaths ==
  WalkRoots \cup
  UNION {{Container \o <<"/">> \o SubSeq(k, 1, i) : i \in {j \in 1..Len(k) : k[j] # "/"}} :
         k \in KeyNames}
WalkFrames ==
  {Frame(p, d) : p \in WalkPaths, d \in {NoDepth} \cup {Depth(n) : n \in 0..MaxDepth}}
Levels == [st \in Stores |-> [frame \in WalkFrames |-> Level(st, frame)]]

Resumed(w, lv) ==
  LET listed == [w EXCEPT !.listed = Append(@, lv.path)]
      yielded == [listed EXCEPT !.out = Append(@, lv.yield)]
  IN IF lv.raised # "" THEN [listed EXCEPT !.status = lv.raised, !.stack = <<>>]
     ELSE IF lv.return THEN Popped(yielded)
     ELSE [yielded EXCEPT !.stack[Len(w.stack)] = lv.frame]
WalkLevel ==
  /\ walk.status = "running"
  /\ Top.pc = "ls"
  /\ walk' = Resumed(walk, Levels[store][Top])
  /\ UNCHANGED <<filevars, dlvars, store, fscall>>

\* "for d in full_dirs": the next directory gets a generator of its own,
\* unless the interpreter's recursion limit is reached
WalkRecurse ==
  /\ walk.status = "running"
  /\ Top.pc = "loop"
  /\ Top.full_dirs # <<>>
  /\ IF Len(walk.stack) >= MaxStack
     THEN walk' = [walk EXCEPT !.status = "RecursionError", !.stack = <<>>]
     ELSE walk' = [walk EXCEPT !.stack =
                     Append([@ EXCEPT ![Len(walk.stack)].full_dirs = Tail(Top.full_dirs)],
                            Frame(Head(Top.full_dirs), Top.maxdepth))]
  /\ UNCHANGED <<filevars, dlvars, store, fscall>>

\* full_dirs is exhausted
WalkReturn ==
  /\ walk.status = "running"
  /\ Top.pc = "loop"
  /\ Top.full_dirs = <<>>
  /\ walk' = Popped(walk)
  /\ UNCHANGED <<filevars, dlvars, store, fscall>>

NextWalk ==
  \/ WalkCall(WalkRoots, WalkDepths)
  \/ WalkLevel
  \/ WalkRecurse
  \/ WalkReturn

InitWalk ==
  /\ InitFiles
  /\ blobs = [p \in Paths |-> NoBlob]
  /\ store \in Stores
  /\ walk = NoWalk
  /\ dlfile = NoDlFile

\* the generator is driven to its end by the caller's loop
SpecWalk == InitWalk /\ [][NextWalk]_vars /\ WF_vars(NextWalk)

\* ---------------------------------------------------- info, exists, find ----
Ok(val) == [res |-> "ok", val |-> val]
Raise(exc) == [res |-> exc, val |-> <<>>]
\* [o for o in out if o["name"].rstrip("/") == path]
SelectNamed(out, path) == SelectSeq(out, LAMBDA o : RStrip(o.name, "/") = path)

\* a list comprehension over what ls gave: an exception of ls goes on to the
\* caller, and iterating over None raises TypeError
Listed(r) == IF r.res = "None" THEN Raise("TypeError") ELSE r

\* info(path), from the listing of the parent (up) and of the path (out)
InfoFrom(path, up, out) ==
  IF up.res # "ok" THEN Raise(up.res)
  ELSE IF SelectNamed(up.val, path) # <<>> THEN Ok(Head(SelectNamed(up.val, path)))
  ELSE IF out.res # "ok" THEN Raise(out.res)
  ELSE IF Len(SelectNamed(out.val, RStrip(path, "/"))) = 1
  THEN Ok(Head(SelectNamed(out.val, RStrip(path, "/"))))
  ELSE IF Len(SelectNamed(out.val, RStrip(path, "/"))) > 1 \/ out.val # <<>>
  THEN Ok([name |-> RStrip(path, "/"), size |-> 0, type |-> "directory"])
  ELSE Raise("FileNotFoundError")
InfoAt(st, path) ==
  InfoFrom(path, Listed(ls(st, Parent(path), TRUE, FALSE)), Listed(ls(st, path, TRUE, FALSE)))
info(st, path0) == InfoAt(st, _strip_protocol(path0))

\* exists(path): any exception of info is False
IsOk(r) == r.res = "ok"
exists(st, path) == IsOk(info(st, path))

\* fsspec's isfile as find calls it: the synchronous method over the
\* coroutine that info is here answers False; one that awaits info (awaited)
\* answers whether the entry is a file
IsFile(r) == r.res = "ok" /\ r.val.type = "file"
isfile(st, path, awaited) == awaited /\ IsFile(info(st, path))

\* every level a walk yields, in order, as the loop of find receives them:
\* todo holds the generators still to run, the nested ones of a level before
\* the ones after it, each with the number of generators it is nested in
Nested(todo, lv) ==
  [i \in DOMAIN lv.frame.full_dirs |->
     [path |-> lv.frame.full_dirs[i], maxdepth |-> lv.frame.maxdepth,
      depth |-> Head(todo).depth + 1]]
WalkStep(todo, out, lv) ==
  IF lv.raised # "" THEN [res |-> lv.raised, todo |-> <<>>, out |-> <<>>]
  ELSE IF lv.return THEN [res |-> "ok", todo |-> Tail(todo), out |-> Append(out, lv.yield)]
  ELSE IF Head(todo).depth >= MaxStack /\ lv.frame.full_dirs # <<>>
  THEN [res |-> "RecursionError", todo |-> <<>>, out |-> <<>>]
  ELSE [res |-> "ok", todo |-> Nested(todo, lv) \o Tail(todo), out |-> Append(out, lv.yield)]
RECURSIVE walk_levels(_, _)
walk_levels(st, w) ==
  IF w.res # "ok" THEN Raise(w.res)
  ELSE IF w.todo = <<>> THEN Ok(w.out)
  ELSE walk_levels(st, WalkStep(w.todo, w.out,
                                Level(st, Frame(Head(w.todo).path, Head(w.todo).maxdepth))))

\* out.update({info["name"]: info for name, info in files.items()})
RECURSIVE DictUpdate(_, _)
DictUpdate(d, items) ==
  IF items = <<>> THEN d
  ELSE DictUpdate(DictSet(d, Head(items).k, Head(items).v), Tail(items))
ByName(files) == [i \in DOMAIN files |-> [k |-> files[i].v.name, v |-> files[i].v]]
RECURSIVE Collect(_, _, _)
Collect(levels, withdirs, out) ==
  IF levels = <<>> THEN out
  ELSE LET files == IF withdirs THEN DictUpdate(Head(levels).files, Head(levels).dirs)
                    ELSE Head(levels).files
       IN Collect(Tail(levels), withdirs, DictUpdate(out, ByName(files)))
DictGet(d, k) == (CHOOSE i \in DOMAIN d : d[i].k = k)
SortedDict(d) ==
  LET names == Sorted({d[i].k : i \in DOMAIN d})
  IN [i \in DOMAIN names |-> d[DictGet(d, names[i])]]

\* find(path, maxdepth, withdirs, detail=True): the entries sorted by name.
\* The loop of find rebinds path to the path of each level.
FindFrom(out, is_file, path) ==
  IF is_file /\ ~\E i \in DOMAIN out : out[i].k = path
  THEN Ok(SortedDict(Append(out, [k |-> path, v |-> <<>>])))
  ELSE Ok(SortedDict(out))
FindOver(st, levels, withdirs, awaited) ==
  IF levels.res # "ok" THEN levels
  ELSE FindFrom(Collect(levels.val, withdirs, <<>>),
                isfile(st, levels.val[Len(levels.val)].path, awaited),
                levels.val[Len(levels.val)].path)
find(st, path0, maxdepth, withdirs, awaited) ==
  FindOver(st,
           walk_levels(st, [res |-> "ok", out |-> <<>>,
                            todo |-> <<[path |-> _strip_protocol(path0),
                                        maxdepth |-> maxdepth, depth |-> 1]>>]),
           withdirs, awaited)

\* ----------------------------------------------------------------- glob ----
Magic == {"*", "?", "["}
has_magic(s) == \E i \in 1..Len(s) : s[i] \in Magic
\* s.replace("//", "/")
RECURSIVE ReplaceSlashes(_)
ReplaceSlashes(s) ==
  IF Len(s) < 2 THEN s
  ELSE IF s[1] = "/" /\ s[2] = "/" THEN <<"/">> \o ReplaceSlashes(SubSeq(s, 3, Len(s)))
  ELSE <<s[1]>> \o ReplaceSlashes(Tail(s))
\* the compiled pattern matched against all of s: "**" is ".*", "*" is
\* "[^/]*", "?" is ".", any other character is itself
RECURSIVE Matches(_, _)
Matches(pat, s) ==
  IF pat = <<>> THEN s = <<>>
  ELSE IF Len(pat) >= 2 /\ pat[1] = "*" /\ pat[2] = "*"
  THEN \E k \in 0..Len(s) : Matches(SubSeq(pat, 3, Len(pat)), SubSeq(s, k + 1, Len(s)))
  ELSE IF pat[1] = "*"
  THEN \E k \in 0..Len(s) :
         /\ ~Contains(SubSeq(s, 1, k), "/")
         /\ Matches(Tail(pat), SubSeq(s, k + 1, Len(s)))
  ELSE IF pat[1] = "?" THEN s # <<>> /\ Matches(Tail(pat), Tail(s))
  ELSE s # <<>> /\ s[1] = pat[1] /\ Matches(Tail(pat), Tail(s))
HasStars(s) == \E i \in 1..(Len(s) - 1) : s[i] = "*" /\ s[i + 1] = "*"
\* the index before the first magic character
FirstMagic(s) ==
  IF has_magic(s) THEN (CHOOSE i \in 1..Len(s) : s[i] \in Magic /\ \A j \in 1..(i - 1) : s[j] \notin Magic) - 1
  ELSE Len(s)

\* glob(path, detail): names, or with detail the entries by name
GlobRoot(path) ==
  IF ~has_magic(path) THEN path
  ELSE IF Contains(SubSeq(path, 1, FirstMagic(path)), "/")
  THEN SubSeq(path, 1, Last(SubSeq(path, 1, FirstMagic(path)), "/"))
  ELSE <<>>
GlobDepth(path) ==
  IF ~has_magic(path) THEN 1
  ELSE IF HasStars(path) THEN 20
  ELSE IF Contains(SubSeq(path, 1, FirstMagic(path)), "/")
  THEN CountOf(SubSeq(path, Last(SubSeq(path, 1, FirstMagic(path)), "/") + 1, Len(path)), "/") + 1
  ELSE 1
GlobPattern(path) == RStrip(ReplaceSlashes(path), "/")
GlobFilter(allpaths, pattern, detail) ==
  IF allpaths.res # "ok" THEN allpaths
  ELSE IF detail
  THEN Ok(SelectSeq(allpaths.val,
                    LAMBDA e : Matches(pattern, RStrip(ReplaceSlashes(e.k), "/"))))
  ELSE Ok(Keys(SelectSeq(allpaths.val,
                         LAMBDA e : Matches(pattern, RStrip(ReplaceSlashes(e.k), "/")))))
GlobOneRaising(path, r, detail) ==
  IF r.res # "ok" THEN r
  ELSE IF detail THEN Ok(<<[k |-> path, v |-> r.val]>>)
  ELSE Ok(<<path>>)
GlobOne(path, r, detail) ==
  IF r.res # "ok" THEN Ok(<<>>)
  ELSE IF detail THEN Ok(<<[k |-> path, v |-> r.val]>>)
  ELSE Ok(<<path>>)
GlobAt(st, path, ends, detail, awaited) ==
  IF ~has_magic(path) /\ ~ends THEN GlobOne(path, info(st, path), detail)
  ELSE GlobFilter(find(st, GlobRoot(path), Depth(GlobDepth(path)), TRUE, awaited),
                  GlobPattern(IF has_magic(path) THEN path ELSE path \o <<"/", "*">>),
                  detail)
glob(st, path0, detail, awaited) ==
  GlobAt(st, _strip_protocol(path0), path0 # <<>> /\ path0[Len(path0)] = "/", detail, awaited)

\* -------------------------------------------------------- rmdir, rm_file ----
\* service_client.delete_container(name): the container goes with its blobs
delete_container(st, name) ==
  IF name \notin st.containers THEN [st |-> st, res |-> "ResourceNotFoundError"]
  ELSE [st |-> [st EXCEPT !.containers = @ \ {name},
                          !.blobs = IF name = Container THEN {} ELSE @],
        res |-> "ok"]
\* container_client.delete_blob(key)
delete_blob(st, container, key) ==
  IF container \notin st.containers \/ ~\E b \in st.blobs : b.name = key
  THEN [st |-> st, res |-> "ResourceNotFoundError"]
  ELSE [st |-> [st EXCEPT !.blobs = {b \in @ : b.name # key}], res |-> "ok"]
\* x in await self.ls("")
In(listing, x) == \E i \in DOMAIN listing.val : listing.val[i] = x
Returned(st) == [st |-> st, res |-> "ok"]

\* rmdir(path, delimiter): "container_name, path = ..." takes two parts
RmdirOf(st, parts, listing, delimiter) ==
  IF Len(parts) # 2 THEN [st |-> st, res |-> "ValueError"]
  ELSE IF In(listing, parts[1] \o <<delimiter>>) /\ parts[2] = <<>>
  THEN delete_container(st, parts[1])
  ELSE Returned(st)
rmdir(st, path0, delimiter) ==
  RmdirOf(st, split_path_delimiter(path0, delimiter), ls(st, <<>>, FALSE, FALSE), delimiter)

\* rm_file(path, delimiter): FileNotFoundError is passed over
RmFileRaising(st, kind, parts, listing, delimiter) ==
  IF kind.res # "ok" THEN [st |-> st, res |-> kind.res]
  ELSE IF kind.val.type \notin {"file", "directory"} THEN [st |-> st, res |-> "RuntimeError"]
  ELSE IF Len(parts) # 2 THEN [st |-> st, res |-> "ValueError"]
  ELSE IF kind.val.type = "file" THEN delete_blob(st, parts[1], parts[2])
  ELSE IF In(listing, parts[1] \o <<delimiter>>) /\ parts[2] = <<>>
  THEN delete_container(st, parts[1])
  ELSE Returned(st)
RmFileOf(st, kind, parts, listing, delimiter) ==
  IF kind.res = "FileNotFoundError" THEN Returned(st)
  ELSE IF kind.res # "ok" THEN [st |-> st, res |-> kind.res]
  ELSE IF kind.val.type \notin {"file", "directory"} THEN [st |-> st, res |-> "RuntimeError"]
  ELSE IF Len(parts) # 2 THEN [st |-> st, res |-> "ValueError"]
  ELSE IF kind.val.type = "file" THEN delete_blob(st, parts[1], parts[2])
  ELSE IF In(listing, parts[1] \o <<delimiter>>) /\ parts[2] = <<>>
  THEN delete_container(st, parts[1])
  ELSE Returned(st)
rm_file(st, path0, delimiter) ==
  RmFileOf(st, info(st, path0), split_path_delimiter(path0, delimiter),
           ls(st, <<>>, FALSE, FALSE), delimiter)

\* ------------------------------------------------- calls on the filesystem ----
\* the paths and delimiters the calls are made with
FsPaths ==
  { <<>>, <<"c">>, <<"q">>, <<"q", "/", "a">>, <<"c", "/", "a">>, <<"c", "/", "a", "/">>,
    <<"c", "/", "a", "/", "x">>, <<"c", "/", "b", "/", "x">>, <<"c", "/", "y">>,
    <<"a", "b", "f", "s", ":", "/", "/", "c", "/", "a", "/", "x">> }
FindPaths == FsPaths \ { <<>>, <<"q">>, <<"c", "/", "a", "/">> }
GlobPaths ==
  (FsPaths \ { <<>>, <<"q">>, <<"c", "/", "b", "/", "x">> })
    \cup { <<"c", "/", "a", "/", "*">>, <<"c", "/", "*", "*">>, <<"c", "/", "a", "?", "/", "x">> }
RmPaths == FsPaths \ { <<>>, <<"c", "/", "a", "/">> }
SplitPaths == FsPaths \cup { <<"/">>, <<"c", "|", "a">> }
FindDepths == {NoDepth} \cup {Depth(n) : n \in 0..MaxFindDepth}
Delimiters == {"/", "|"}

\* the stores the calls come to, and the answers of the calls on each,
\* computed once
FsStores == {st \in Stores : ~st.cyclic} \cup {NoStore}
Lists ==
  [st \in FsStores |->
     [a \in FsPaths \X BOOLEAN |-> ls(st, a[1], a[2], FALSE)] @@ <<>>] @@ <<>>
\* the names find returns (detail=False)
Names(r) == IF r.res = "ok" THEN Ok(Keys(r.val)) ELSE r
Finds ==
  [st \in FsStores |->
     [a \in FindPaths \X FindDepths \X BOOLEAN \X BOOLEAN |->
        Names(find(st, a[1], a[2], a[3], a[4]))] @@ <<>>] @@ <<>>
Globs ==
  [st \in FsStores |->
     [a \in GlobPaths \X BOOLEAN \X BOOLEAN |-> glob(st, a[1], a[2], a[3])] @@ <<>>] @@ <<>>
RmFiles ==
  [st \in FsStores |->
     [a \in RmPaths \X Delimiters |-> rm_file(st, a[1], a[2])] @@ <<>>] @@ <<>>
Rmdirs ==
  [st \in FsStores |->
     [a \in RmPaths \X Delimiters |-> rmdir(st, a[1], a[2])] @@ <<>>] @@ <<>>

Called(op, args, r) ==
  [op |-> op, args |-> args, res |-> r.res, val |-> r.val, before |-> store]
Removed(op, args, r) ==
  /\ fscall' = Called(op, args, [res |-> r.res, val |-> <<>>])
  /\ store' = r.st
FsFrame == UNCHANGED <<filevars, dlvars, walk>>

Ls(paths) ==
  /\ \E path \in paths, detail \in BOOLEAN :
       fscall' = Called("ls", <<path, detail>>, Lists[store][<<path, detail>>])
  /\ UNCHANGED store /\ FsFrame
Find(paths, depths) ==
  /\ \E path \in paths, maxdepth \in depths, withdirs \in BOOLEAN, awaited \in BOOLEAN :
       fscall' = Called("find", <<path, maxdepth, withdirs>>,
                        Finds[store][<<path, maxdepth, withdirs, awaited>>])
  /\ UNCHANGED store /\ FsFrame
Glob(paths) ==
  /\ \E path \in paths, detail \in BOOLEAN, awaited \in BOOLEAN :
       fscall' = Called("glob", <<path, detail>>, Globs[store][<<path, detail, awaited>>])
  /\ UNCHANGED store /\ FsFrame
SplitPath(paths, delimiters) ==
  /\ \E path \in paths, delimiter \in delimiters :
       fscall' = Called("split_path", <<path, delimiter>>,
                        Ok(split_path_delimiter(path, delimiter)))
  /\ UNCHANGED store /\ FsFrame
RmFile(paths, delimiters) ==
  /\ \E path \in paths, delimiter \in delimiters :
       Removed("rm_file", <<path, delimiter>>, RmFiles[store][<<path, delimiter>>])
  /\ FsFrame
Rmdir(paths, delimiters) ==
  /\ \E path \in paths, delimiter \in delimiters :
       Removed("rmdir", <<path, delimiter>>, Rmdirs[store][<<path, delimiter>>])
  /\ FsFrame

NextFs ==
  \/ Ls(FsPaths)
  \/ Find(FindPaths, FindDepths)
  \/ Glob(GlobPaths)
  \/ SplitPath(SplitPaths, Delimiters)
  \/ RmFile(RmPaths, Delimiters)
  \/ Rmdir(RmPaths, Delimiters)

\* any set of blobs in the container, listed consistently
InitFs ==
  /\ InitFiles
  /\ blobs = [p \in Paths |-> NoBlob]
  /\ store \in FsStores \ {NoStore}
  /\ walk = NoWalk
  /\ dlfile = NoDlFile

SpecFs == InitFs /\ [][NextFs]_vars

\* ------------------------------------------------------ AzureDatalakeFile ----
\* seek(loc, whence): the handle after the call, what it raised and returned
seekUnchecked(f, loc, whence) ==
  IF f.mode # "rb" THEN [f |-> f, res |-> "ValueError", ret |-> 0]
  ELSE IF whence \notin {0, 1, 2} THEN [f |-> f, res |-> "ValueError", ret |-> 0]
  ELSE LET nloc == IF whence = 0 THEN loc
                   ELSE IF whence = 1 THEN f.loc + loc
                   ELSE f.size + loc
       IN [f |-> [f EXCEPT !.loc = nloc], res |-> "ok", ret |-> nloc]
seek(f, loc, whence) ==
  IF f.mode # "rb" THEN [f |-> f, res |-> "ValueError", ret |-> 0]
  ELSE IF whence \notin {0, 1, 2} THEN [f |-> f, res |-> "ValueError", ret |-> 0]
  ELSE LET nloc == IF whence = 0 THEN loc
                   ELSE IF whence = 1 THEN f.loc + loc
                   ELSE f.size + loc
       IN IF nloc < 0 THEN [f |-> f, res |-> "ValueError", ret |-> 0]
          ELSE [f |-> [f EXCEPT !.loc = nloc], res |-> "ok", ret |-> nloc]

\* a call of seek on the handle
Seek(locs, whences) ==
  /\ dlfile.state = "open"
  /\ \E loc \in locs, whence \in whences :
       LET r == seek(dlfile, loc, whence)
       IN /\ r.f.loc <= MaxSeek
          /\ dlfile' = [r.f EXCEPT !.seek = [loc |-> loc, whence |-> whence, res |-> r.res,
                                             ret |-> r.ret, before |-> dlfile.loc]]
  /\ UNCHANGED <<filevars, fsvars>>

NextSeek == Seek((0 - MaxSeek)..MaxSeek, 0..3)

\* AzureDatalakeFile.__init__: a handle on a file of some size, in some mode
InitSeek ==
  /\ InitFiles
  /\ blobs = [p \in Paths |-> NoBlob]
  /\ store = NoStore
  /\ walk = NoWalk
  /\ dlfile \in {[NoDlFile EXCEPT !.state = "open", !.mode = m, !.size = n] :
                   m \in {"rb", "wb", "ab"}, n \in 0..MaxSize}

SpecSeek == InitSeek /\ [][NextSeek]_vars

\* one handle; every store call may fail
Next ==
  \E h \in {1} :
    \/ Open(h, 1..MaxBlockSize)
    \/ Write(h, 1..MaxData, MaxLoc)
    \/ Flush(h)
    \/ Close(h)
    \/ DeleteBlobStep(h, BOOLEAN)
    \/ StageBlockStep(h, BOOLEAN)
    \/ CommitBlockListStep(h, BOOLEAN)
    \/ FetchRange(h, 0..(MaxSize + 1))
    \/ Del(h)

Spec == Init /\ [][Next]_vars

\* two handles whose calls interleave at the awaits; store calls fail only when
\* the store cannot do what is asked
NextPair ==
  \E h \in Handles :
    \/ Open(h, {2})
    \/ Write(h, {1}, PairMaxLoc)
    \/ Close(h)
    \/ DeleteBlobStep(h, {TRUE})
    \/ StageBlockStep(h, {TRUE})
    \/ CommitBlockListStep(h, {TRUE})
    \/ FetchRange(h, {0, 1})
    \/ Del(h)

InitPair ==
  /\ Init
  /\ \A p \in Paths : blobs[p] = InitialBlob(1)

SpecPair == InitPair /\ [][NextPair]_vars

\* one handle that writes byte after byte into blocks of one byte, so that the
\* block ids run into two digits
NextLong ==
  \E h \in {1} :
    \/ Open(h, {1})
    \/ Write(h, {1}, LongMaxLoc)
    \/ Flush(h)
    \/ Close(h)
    \/ DeleteBlobStep(h, BOOLEAN)
    \/ StageBlockStep(h, BOOLEAN)
    \/ CommitBlockListStep(h, BOOLEAN)

InitLong ==
  /\ Init
  /\ \A p \in Paths : blobs[p] = NoBlob

SpecLong == InitLong /\ [][NextLong]_vars

\* ------------------------------------------------------------------ claims
\* the step is a call on, or a step of, handle h
Acts(h) == call'[h] # call[h] \/ file'[h] # file[h] \/ hist'[h] # hist[h]
\* the step leaves the handle's fields, what it asked of the store, and the store alone
NoEffect(h) ==
  /\ file'[h] = file[h]
  /\ hist'[h] = hist[h]
  /\ blobs' = blobs
  /\ uncommitted' = uncommitted
\* a handle in write mode on which flush(force=True) has been called and has returned or raised
Forced(h) == Idle(h) /\ file[h].mode \in WriteModes /\ file[h].forced

\* C1 (as amended): once flush(force=True) has been called on a write-mode handle,
\* every later write and every later flush(force=True) raises ValueError and
\* changes nothing (handle fields, staged blocks, commits); close() still returns
\* without error, and a flush(force=False) on the still open handle is not
\* rejected with ValueError.
C1_RejectedAfterForce ==
  [][\A h \in Handles :
       Forced(h) /\ Acts(h) =>
         /\ call'[h].op = "write" => call'[h].res = "ValueError" /\ NoEffect(h)
         /\ call'[h].op = "flush" /\ call'[h].force =>
              call'[h].res = "ValueError" /\ NoEffect(h)
         /\ call'[h].op = "close" => call'[h].res = "ok" /\ file'[h].closed
         /\ call'[h].op = "flush" /\ ~call'[h].force /\ ~file[h].closed =>
              call'[h].res # "ValueError"]_vars

\* C1 witness: a write was rejected on a handle that was forced and not closed
C1_Witness ==
  \E h \in Handles :
    /\ call[h].op = "write" /\ call[h].res = "ValueError"
    /\ call[h].entry.forced /\ ~call[h].entry.closed

\* C1 as stated: ... and the only call that still returns without error is close()
C1_OnlyCloseSucceeds ==
  [][\A h \in Handles :
       Forced(h) /\ Acts(h) =>
         /\ call'[h].op = "write" => call'[h].res = "ValueError" /\ NoEffect(h)
         /\ call'[h].op = "flush" /\ call'[h].force =>
              call'[h].res = "ValueError" /\ NoEffect(h)
         /\ call'[h].res = "ok" => call'[h].op = "close"]_vars

\* the number a block id reads as, and whether it is n in 7 decimal digits
RECURSIVE DecVal(_)
DecVal(id) == IF id = <<>> THEN 0 ELSE 10 * DecVal(SubSeq(id, 1, Len(id) - 1)) + id[Len(id)]
IsId7(id, n) == Len(id) = 7 /\ (\A i \in 1..7 : id[i] \in 0..9) /\ DecVal(id) = n
\* what a sequence of strings holds of one string
Count(seq, x) == Cardinality({i \in 1..Len(seq) : seq[i] = x})
Ids(blocks) == [k \in 1..Len(blocks) |-> blocks[k].id]
WriteHandle(h) == file[h].state = "open" /\ file[h].mode \in WriteModes

\* C2: a write-mode handle that received N >= 1 writes of exactly blocksize bytes
\* and was then closed, with no store call failing, has committed exactly the N
\* ids 0000000 .. N-1 in ascending order, and the object holds N * blocksize bytes.
C2_NBlocksCommitted ==
  \A h \in Handles :
    ( /\ WriteHandle(h) /\ file[h].closed /\ ~hist[h].failed
      /\ hist[h].exact /\ hist[h].nwrites >= 1 ) =>
      /\ Len(hist[h].commits) = 1
      /\ Len(hist[h].commits[1]) = hist[h].nwrites
      /\ \A k \in 1..Len(hist[h].commits[1]) : IsId7(hist[h].commits[1][k], k - 1)
      /\ Len(Content(blobs[file[h].path].blocks)) = hist[h].nwrites * file[h].blocksize

\* C3: the k-th block a write-mode handle has staged (k from 0) carries the id k in
\* 7 zero-padded decimal digits, the handle's block list is those ids in staging
\* order, and the list given to commit_block_list is the ids of the blocks staged
\* until then, in the same order.
C3_BlockIdsSequential ==
  \A h \in Handles :
    /\ \A k \in 1..Len(hist[h].staged) : IsId7(hist[h].staged[k].id, k - 1)
    /\ WriteHandle(h) => file[h].block_list = Ids(hist[h].staged)
    /\ \A c \in 1..Len(hist[h].commits) :
         \E n \in 0..Len(hist[h].staged) :
           /\ hist[h].commits[c] = SubSeq(Ids(hist[h].staged), 1, n)
           /\ \E i \in 1..Len(hist[h].events) :
                /\ hist[h].events[i] = "commit_block_list"
                /\ Count(SubSeq(hist[h].events, 1, i), "stage_block") = n

\* C3 witness: a handle has staged blocks up to the two-digit id 0000010 and
\* committed them
C3_Witness ==
  \E h \in Handles :
    /\ Len(hist[h].staged) >= 11 /\ Len(hist[h].commits) = 1
    /\ hist[h].commits[1][11] = <<0, 0, 0, 0, 0, 1, 0>>
    /\ \E p \in Paths : blobs[p].by = h /\ Len(blobs[p].blocks) >= 11

\* the last n events of a handle
LastEvents(h, n) ==
  SubSeq(hist[h].events, Len(hist[h].events) - n + 1, Len(hist[h].events))

\* C4: a close() of an open write-mode handle, with no store call failing, stages
\* the final block and commits the block list, then invalidates the cache for the
\* path and for its parent, then sets closed; a handle issues commit_block_list at
\* most once in its life, and exactly once by the time such a close() returns.
C4_CloseOrder ==
  \A h \in Handles :
    /\ Count(hist[h].events, "commit_block_list") <= 1
    /\ Len(hist[h].commits) = Count(hist[h].events, "commit_block_list")
    /\ WriteHandle(h) =>
         /\ file[h].closed <=>
              (hist[h].events # <<>> /\ hist[h].events[Len(hist[h].events)] = "closed")
         /\ file[h].closed /\ ~hist[h].failed =>
              /\ Len(hist[h].events) >= 5
              /\ LastEvents(h, 5) = <<"stage_block", "commit_block_list",
                                      "invalidate_cache", "invalidate_cache", "closed">>
              /\ hist[h].invalidated = <<file[h].path, Parent(file[h].path)>>
              /\ Count(hist[h].events, "commit_block_list") = 1

\* C4 witness: a close() that found the handle not forced has returned, no store
\* call having failed
C4_Witness ==
  \E h \in Handles :
    /\ WriteHandle(h) /\ file[h].closed /\ ~hist[h].failed
    /\ call[h].op = "close" /\ call[h].res = "ok" /\ ~call[h].entry.forced
    /\ hist[h].nwrites >= 1

\* C5: close() on a handle that is already closed, in either mode, returns without
\* error, asks nothing of the store, invalidates no cache and changes no field.
C5_CloseIdempotent ==
  [][\A h \in Handles :
       Idle(h) /\ file[h].closed /\ Acts(h) /\ call'[h].op = "close" =>
         call'[h].res = "ok" /\ NoEffect(h)]_vars

\* C5 witness: a close() has returned that found the handle closed
C5_Witness ==
  \E h \in Handles, m \in {"rb", "wb"} :
    /\ file[h].state = "open" /\ file[h].mode = m
    /\ call[h].op = "close" /\ call[h].entry.closed /\ call[h].res = "ok"

\* C6: with two write handles on one path (and no empty block staged), the
\* committed object holds exactly the bytes written through the handle whose
\* commit made it, never blocks staged through the other handle.
C6_LastWriterWins ==
  \A p \in Paths :
    ( /\ blobs[p].exists /\ blobs[p].by # 0
      /\ \A h \in Handles : \A k \in 1..Len(hist[h].staged) :
           hist[h].staged[k].data # <<>> ) =>
      Content(blobs[p].blocks) = hist[blobs[p].by].written

\* C7: a call on one handle, or dropping it, leaves every other handle's fields
\* unchanged and leaves the filesystem's event loop usable.
C7_HandlesIndependent ==
  [][\A h \in Handles :
       Acts(h) =>
         /\ \A g \in Handles \ {h} : file'[g] = file[g]
         /\ ~loopClosed']_vars

\* C10: _fetch_range(start, end) on an object of size S returns the object's bytes
\* at offsets [start, min(end, S)).
C10_FetchRangeBytes ==
  \A h \in Handles :
    call[h].op = "_fetch_range" /\ call[h].res = "ok" =>
      LET content == Content(blobs[file[h].path].blocks)
          start == call[h].args[1]
          end == call[h].args[2]
      IN call[h].out = SubSeq(content, start + 1, Min(end, Len(content)))

\* the directories that the blob names imply below a root
DirsOf(name) ==
  { Container \o <<"/">> \o SubSeq(name, 1, i - 1) : i \in {j \in 1..Len(name) : name[j] = "/"} }
ImpliedDirs == store.containers \cup UNION {DirsOf(b.name) : b \in store.blobs}
LevelOf(p) == IF p = <<>> THEN 0 ELSE CountOf(p, "/") + 1
Under(r, p) == r = <<>> \/ StartsWith(p, r \o <<"/">>)
Expected(r, maxdepth) ==
  {r} \cup {p \in ImpliedDirs :
              Under(r, p) /\ (maxdepth.unset \/ LevelOf(p) - LevelOf(r) < maxdepth.n)}
YieldedPaths == [i \in DOMAIN walk.out |-> walk.out[i].path]
WalkOver == walk.status = "done" /\ ~store.cyclic /\ \A b \in store.blobs : b.size > 0

\* C8: a walk over a store of non-empty blobs yields the root's level first
\* and every level after its parent's; with maxdepth 1 it lists once and
\* yields once; with maxdepth d >= 1 it yields exactly the directories fewer
\* than d levels below the root, with maxdepth unset every directory below
\* the root, each once.
C8_WalkLevels ==
  WalkOver /\ (walk.maxdepth.unset \/ walk.maxdepth.n >= 1) =>
    /\ YieldedPaths[1] = _strip_protocol(walk.root)
    /\ \A i \in 2..Len(YieldedPaths) :
         \E j \in 1..(i - 1) : YieldedPaths[j] = Parent(YieldedPaths[i])
    /\ walk.maxdepth = Depth(1) => Len(walk.listed) = 1 /\ Len(walk.out) = 1
    /\ {YieldedPaths[i] : i \in DOMAIN YieldedPaths}
         = Expected(_strip_protocol(walk.root), walk.maxdepth)
    /\ \A i, j \in DOMAIN YieldedPaths : i # j => YieldedPaths[i] # YieldedPaths[j]

\* the depth a generator works with, by its place in the nesting
DepthAt(i) ==
  IF walk.stack[i].pc = "ls" THEN walk.maxdepth.n - (i - 1) ELSE walk.maxdepth.n - i
DepthDecreases ==
  \A i \in DOMAIN walk.stack :
    /\ walk.stack[i].maxdepth.unset = walk.maxdepth.unset
    /\ ~walk.maxdepth.unset => walk.stack[i].maxdepth.n = DepthAt(i)
MayNotEnd == walk.maxdepth.unset /\ store.cyclic

\* C9: the remaining depth goes down by one with each nested call, and a walk
\* that is given a maxdepth (0 included) comes to its end on every store, a
\* cyclic one included; a walk without maxdepth comes to its end on every
\* store whose listings lead only downwards.
C9_WalkTerminates ==
  /\ [] DepthDecreases
  /\ (walk.status = "running" /\ ~MayNotEnd) ~> (walk.status = "done")

\* a walk with maxdepth has gone three levels down a cyclic store and ended
C9_Witness ==
  /\ walk.status = "done"
  /\ store.cyclic
  /\ walk.maxdepth = Depth(3)
  /\ Len(walk.out) > 3

\* C9 as stated: every walk comes to its end, whatever the store and maxdepth
C9_AlwaysTerminates == (walk.status = "running") ~> (walk.status = "done")

\* C11: seek on a read-mode handle sets loc to loc (whence 0), the old loc + loc
\* (whence 1) or size + loc (whence 2) and returns it; it raises ValueError when
\* the mode is not rb, when whence is not 0, 1 or 2, or when the new loc would
\* be negative, and then leaves loc as it was; loc is never negative.
C11_Seek ==
  dlfile.state = "open" =>
    /\ dlfile.loc >= 0
    /\ dlfile.seek.res # "none" =>
         LET c == dlfile.seek
             nloc == IF c.whence = 0 THEN c.loc
                     ELSE IF c.whence = 1 THEN c.before + c.loc
                     ELSE dlfile.size + c.loc
             bad == dlfile.mode # "rb" \/ c.whence \notin {0, 1, 2} \/ nloc < 0
         IN /\ bad => c.res = "ValueError" /\ dlfile.loc = c.before
            /\ ~bad => c.res = "ok" /\ dlfile.loc = nloc /\ c.ret = nloc
            /\ (~bad /\ c.whence = 2 /\ c.loc = 0) => c.ret = dlfile.size

\* C11 witness: a seek from the end has moved loc, and a later seek that would
\* have gone before the start has been refused
C11_Witness ==
  /\ dlfile.state = "open" /\ dlfile.mode = "rb"
  /\ dlfile.seek.res = "ValueError" /\ dlfile.seek.whence = 1
  /\ dlfile.seek.before > 0 /\ dlfile.seek.before + dlfile.seek.loc < 0

\* the latest call on the filesystem: its path and its second argument
CallPath == fscall.args[1]
CallFlag == fscall.args[2]
EndsWithSlash(path) == path # <<>> /\ path[Len(path)] = "/"
\* what glob answers for a path that exists or not
GlobOfOne(st, path, detail) ==
  IF ~exists(st, path) THEN <<>>
  ELSE IF detail THEN <<[k |-> _strip_protocol(path), v |-> info(st, path).val]>>
  ELSE <<_strip_protocol(path)>>

\* C12 (as amended): glob(p) for a path p with no metacharacter that does not
\* end with "/" returns [p] when exists(p) and [] when not (with detail,
\* {p: info(p)} and {}), and does not raise.
C12_GlobLiteral ==
  fscall.op = "glob" /\ ~has_magic(CallPath) /\ ~EndsWithSlash(CallPath) =>
    fscall.res = "ok" /\ fscall.val = GlobOfOne(fscall.before, CallPath, CallFlag)

\* C12 witness: glob of a literal path that does not exist has returned the
\* empty list
C12_Witness ==
  /\ fscall.op = "glob" /\ ~has_magic(CallPath) /\ ~EndsWithSlash(CallPath)
  /\ ~exists(fscall.before, CallPath)
  /\ fscall.before.blobs # {}
  /\ fscall.res = "ok" /\ fscall.val = <<>>

\* C12 as stated: for every path p with no metacharacter, glob(p) returns [p]
\* when exists(p) and [] when not
C12_GlobEveryLiteral ==
  fscall.op = "glob" /\ ~has_magic(CallPath) =>
    fscall.res = "ok" /\ fscall.val = GlobOfOne(fscall.before, CallPath, CallFlag)

\* the blob of a store that a path names, if it names one
BlobAt(st, path) ==
  {b \in st.blobs : Container \in st.containers
                    /\ _strip_protocol(path) = Container \o <<"/">> \o b.name}

\* C13: find(p) for a path p that names an existing blob (a file) returns
\* exactly [p], for any maxdepth and for withdirs true or false.
C13_FindFile ==
  fscall.op = "find" /\ (\E b \in BlobAt(fscall.before, CallPath) : b.size > 0) =>
    fscall.res = "ok" /\ fscall.val = <<_strip_protocol(CallPath)>>

\* a find root that does not exist: its container is missing, or no blob of
\* the container is under its key
RootMissing(st, path) ==
  \/ split_path(path)[1] \notin st.containers
  \/ /\ split_path(path)[2] # <<>>
     /\ ~\E b \in st.blobs : StartsWith(b.name, split_path(path)[2])

\* C14: find(path) on a root that does not exist returns an empty result and
\* does not raise: a FileNotFoundError of the listing becomes an empty level.
C14_FindMissing ==
  fscall.op = "find" /\ RootMissing(fscall.before, CallPath) =>
    fscall.res = "ok" /\ fscall.val = <<>>

\* C14 witness: find has returned empty for a key nothing is under, in a
\* container that holds blobs
C14_Witness ==
  /\ fscall.op = "find" /\ RootMissing(fscall.before, CallPath)
  /\ split_path(CallPath)[1] \in fscall.before.containers
  /\ fscall.before.blobs # {}
  /\ fscall.res = "ok" /\ fscall.val = <<>>

\* what the listing of a path matches: the containers for the root, else the
\* blobs of the container whose names begin with the key
Matched(st, path) ==
  IF split_path(path)[1] = <<>> THEN st.containers
  ELSE {b \in st.blobs : /\ split_path(path)[1] \in st.containers
                         /\ StartsWith(b.name, split_path(path)[2])}

NextLevel(st, d) ==
  {Container \o <<"/">> \o ItemName(b.name, split_path(d)[2]) :
     b \in {b \in st.blobs : StartsWith(b.name, split_path(d)[2])}}
EntryNames(val, detail) ==
  IF detail THEN [i \in DOMAIN val |-> val[i].name] ELSE val

\* C16: ls(d + "/"), with detail true or false, returns exactly one entry per
\* next-level segment below d: the blobs directly in d and one directory per
\* subdirectory, no duplicates, nothing from a deeper level.
C16_LsOneLevel ==
  ( /\ fscall.op = "ls" /\ EndsWithSlash(CallPath)
    /\ split_path(CallPath)[1] \in fscall.before.containers
    /\ split_path(CallPath)[2] # <<>>
    /\ \A b \in fscall.before.blobs : b.size > 0
    /\ NextLevel(fscall.before, CallPath) # {} ) =>
    /\ fscall.res = "ok"
    /\ Len(fscall.val) = Cardinality(NextLevel(fscall.before, CallPath))
    /\ {EntryNames(fscall.val, CallFlag)[i] : i \in DOMAIN fscall.val}
         = NextLevel(fscall.before, CallPath)

\* C17: rm_file(p) returns without error; on a path that does not exist it
\* leaves the store as it was; and a second rm_file(p) returns without error
\* and leaves the store as the first left it.
C17_RmFileIdempotent ==
  fscall.op = "rm_file" /\ CallFlag = "/" =>
    /\ fscall.res = "ok"
    /\ ~exists(fscall.before, CallPath) => store = fscall.before
    /\ rm_file(store, CallPath, "/") = [st |-> store, res |-> "ok"]

\* C17 witness: rm_file has deleted a blob, and the same call again changes
\* nothing
C17_Witness ==
  /\ fscall.op = "rm_file" /\ CallFlag = "/" /\ fscall.res = "ok"
  /\ store.blobs # fscall.before.blobs /\ store.blobs # {}
  /\ rm_file(store, CallPath, "/").st = store

\* C18: rmdir(path) deletes a container only if it holds no blob, and deletes
\* nothing for a path with a key or for a container that does not exist.
C18_RmdirOnlyEmpty ==
  fscall.op = "rmdir" =>
    /\ fscall.before.blobs # {} => store = fscall.before
    /\ split_path(CallPath)[2] # <<>> => store = fscall.before
    /\ split_path(CallPath)[1] \notin fscall.before.containers => store = fscall.before

\* C19: split_path of a non-empty path, for any delimiter, returns two parts:
\* a container without separator, and the key; "" and "/" give ("", "").
C19_SplitPath ==
  fscall.op = "split_path" =>
    IF CallPath \in {<<>>, <<"/">>} THEN fscall.val = << <<>>, <<>> >>
    ELSE /\ Len(fscall.val) = 2
         /\ ~Contains(fscall.val[1], "/") /\ ~Contains(fscall.val[1], CallFlag)
         /\ fscall.val[1] \o (IF fscall.val[2] = <<>> THEN <<>> ELSE <<CallFlag>> \o fscall.val[2])
              = _strip_protocol(CallPath)

\* C20: flush(force) on an open handle in read mode (any force), or with force
\* false and fewer buffered bytes than blocksize, returns having asked nothing
\* of the store and changed no field of the handle.
C20_FlushNoOp ==
  [][\A h \in Handles :
       ( /\ Idle(h) /\ ~file[h].closed /\ Acts(h) /\ call'[h].op = "flush"
         /\ \/ file[h].mode = "rb"
            \/ ~call'[h].force /\ Len(file[h].buffer) < file[h].blocksize ) =>
         call'[h].res = "ok" /\ call'[h].pc = "idle" /\ NoEffect(h)]_vars

\* the step adds the event e to what handle h asked of the store
Adds(h, e) == Count(hist'[h].events, e) > Count(hist[h].events, e)

\* C21: a write-mode handle issues delete_blob at most once; not at open and not
\* in a flush that returns at once, but in the first flush that goes on to
\* stage a block, and before the handle's first stage_block; when the blob is
\* not there (ResourceNotFoundError) the flush goes on to stage_block.
C21_InitiateOnce ==
  [][\A h \in Handles :
       /\ Count(hist'[h].events, "delete_blob") <= 1
       /\ Adds(h, "stage_block") => Count(hist[h].events, "delete_blob") = 1
       /\ Adds(h, "delete_blob") =>
            /\ call[h].op \in {"write", "flush", "close"} /\ call[h].pc = "delete_blob"
            /\ call[h].force \/ Len(file[h].buffer) >= file[h].blocksize
            /\ hist[h].staged = <<>>
       /\ ( /\ Adds(h, "delete_blob") /\ ~blobs[file[h].path].exists
            /\ call'[h].res # "RuntimeError" ) =>
            call'[h].pc = "stage_block" /\ call'[h].res = "pending"
       /\ (Acts(h) /\ call'[h].op \in {"none", "flush"} /\ call[h].pc = "idle") =>
            ~Adds(h, "delete_blob")]_vars

\* C21 witness: a handle has staged two blocks after its one delete_blob, its
\* flushes having been started by writes
C21_Witness ==
  \E h \in Handles :
    /\ WriteHandle(h) /\ hist[h].nwrites >= 2
    /\ hist[h].events = <<"delete_blob", "stage_block", "stage_block">>

\* the step is the return, without error, of a write on handle h
WriteReturns(h) ==
  /\ Acts(h) /\ WriteHandle(h)
  /\ call'[h].op = "write" /\ call'[h].pc = "idle" /\ call'[h].res = "ok"

\* C22: when a write on a write-mode handle returns without error, fewer than
\* blocksize bytes are buffered; a write that brought the buffer to blocksize
\* or more returns only with the stage_block of the whole buffer as one block,
\* the buffer left empty.
C22_Backpressure ==
  [][\A h \in Handles :
       WriteReturns(h) =>
         /\ Len(file'[h].buffer) < file'[h].blocksize
         /\ call[h].pc # "idle" =>
              /\ call[h].pc = "stage_block"
              /\ Len(file[h].buffer) >= file[h].blocksize
              /\ Len(hist'[h].staged) = Len(hist[h].staged) + 1
              /\ hist'[h].staged[Len(hist'[h].staged)].data = file[h].buffer
              /\ file'[h].buffer = <<>>
         /\ call[h].pc = "idle" => hist'[h].staged = hist[h].staged]_vars

\* C22 witness: a write that filled the buffer beyond blocksize has returned,
\* the buffer staged as one block
C22_Witness ==
  \E h \in Handles :
    /\ WriteHandle(h) /\ call[h].op = "write" /\ call[h].pc = "idle" /\ call[h].res = "ok"
    /\ file[h].buffer = <<>> /\ hist[h].staged # <<>>
    /\ Len(hist[h].staged[Len(hist[h].staged)].data) > file[h].blocksize

\* the bytes handle h has staged so far (0 before the first stage) and holds buffered
Staged(f) == IF f.offset = None THEN 0 ELSE f.offset
Accounted(h) ==
  /\ file[h].loc = Len(hist[h].written)
  /\ file[h].loc = Staged(file[h]) + Len(file[h].buffer)

\* the step is the return, without error, of the close that closes handle h
CloseReturns(h) ==
  /\ Acts(h) /\ ~file[h].closed /\ file'[h].closed
  /\ call'[h].op = "close" /\ call'[h].pc = "idle" /\ call'[h].res = "ok"

\* C23: on a write-mode handle no store call of which has failed, loc is the
\* number of bytes taken by write and is offset (0 while None) plus the bytes
\* buffered; and when close() returns, the blocks of the committed blob, in
\* block-list order, are the data passed to write, in call order.
C23_NoByteLost ==
  [][\A h \in Handles :
       (WriteHandle(h)' /\ ~hist'[h].failed) =>
         /\ Accounted(h)'
         /\ CloseReturns(h) =>
              Content(blobs'[file[h].path].blocks) = hist'[h].written]_vars

\* the accounting half of C23 alone
C23_Accounting ==
  \A h \in Handles : (WriteHandle(h) /\ ~hist[h].failed) => Accounted(h)

\* handle h is inside a forced flush (of flush(force=True) or of close)
InForcedFlush(h) == call[h].force /\ call[h].pc # "idle"
\* the step is a forced flush of handle h raising out of a store call
ForcedFlushFails(h) ==
  /\ InForcedFlush(h) /\ call'[h].pc = "idle"
  /\ call'[h].res \in {"RuntimeError", "StoreError"}
\* the forced flush of write-mode handle h is over and has committed nothing
FailedForced(h) ==
  /\ WriteHandle(h) /\ file[h].forced /\ ~InForcedFlush(h)
  /\ blobs[file[h].path].by # h

\* C24: when a forced flush (of flush(force=True) or of close) raises because
\* delete_blob, stage_block or commit_block_list fails, the handle stays forced
\* and not closed and what was staged stays staged; a close() after that
\* invalidates the cache and marks the handle closed without stage_block or
\* commit_block_list, and no later call on the handle commits the blob.
C24_FailedForcedFlush ==
  [][\A h \in Handles :
       /\ (WriteHandle(h) /\ ForcedFlushFails(h)) =>
            /\ call[h].pc \in {"delete_blob", "stage_block", "commit_block_list"}
            /\ file'[h].forced /\ ~file'[h].closed /\ file'[h] = file[h]
            /\ blobs' = blobs /\ uncommitted' = uncommitted
            /\ FailedForced(h)'
       /\ (FailedForced(h) /\ Acts(h)) =>
            /\ hist[h].failed
            /\ ~Adds(h, "commit_block_list") /\ blobs' = blobs
            /\ file'[h].state = "open" => FailedForced(h)'
            /\ (call'[h].op = "close" /\ call[h].pc = "idle" /\ ~file[h].closed) =>
                 /\ call'[h].pc = "idle" /\ call'[h].res = "ok" /\ file'[h].closed
                 /\ hist'[h].events =
                      hist[h].events \o <<"invalidate_cache", "invalidate_cache", "closed">>
                 /\ hist'[h].staged = hist[h].staged
                 /\ uncommitted' = uncommitted]_vars

\* C24 witness: a handle whose forced flush failed at commit_block_list has been
\* closed by a later close()
C24_Witness ==
  \E h \in Handles :
    /\ WriteHandle(h) /\ file[h].closed /\ hist[h].failed
    /\ call[h].op = "close" /\ call[h].res = "ok"
    /\ call[h].entry.forced /\ ~call[h].entry.closed
    /\ hist[h].events = <<"delete_blob", "stage_block", "commit_block_list",
                          "invalidate_cache", "invalidate_cache", "closed">>
    /\ blobs[file[h].path].by # h

====
